---- MODULE Spec2Model ----
(***************************************************************************)
(* Model of camera.py: the GStreamer pipeline descriptor builder           *)
(* (gstreamer_pipeline) and the capture/display loop (show_camera).        *)
(* Strings are sequences of one-character strings so that formatting and   *)
(* parsing are computed character by character.                            *)
(***************************************************************************)
EXTENDS Integers, Sequences, FiniteSets, TLC

(* ---------------- bounds of the model ---------------- *)
\* largest sensor index tried by the builder checks
MaxSensorId == 1
\* flip codes tried: -1 .. MaxFlipMethod (-1 is a malformed value the builder
\* does not validate)
MaxFlipMethod == 1
\* frames the video source can deliver before end of stream
MaxFrames == 2

(* ---------------- module-scope constants of camera.py ---------------- *)
DEFAULT_FLIP_METHOD == 0

\* 27 and ord("q")
KEY_ESC == 27

KEY_Q == 113

EXIT_KEYS == {KEY_ESC, KEY_Q}

\* the two printed messages
MSG_OPEN_ERROR ==
    <<"E", "r", "r", "o", "r", ":", " ", "U", "n", "a", "b", "l", "e", " ",
     "t", "o", " ", "o", "p", "e", "n", " ", "c", "a", "m", "e", "r", "a">>

MSG_READ_WARNING ==
    <<"W", "a", "r", "n", "i", "n", "g", ":", " ", "F", "a", "i", "l", "e",
     "d", " ", "t", "o", " ", "r", "e", "a", "d", " ", "f", "r", "a", "m",
     "e", " ", "f", "r", "o", "m", " ", "c", "a", "m", "e", "r", "a">>

(* ---------------- gstreamer_pipeline ---------------- *)
\* the six adjacent string literals of the format string
FMT_LINE_19 ==
    <<"n", "v", "a", "r", "g", "u", "s", "c", "a", "m", "e", "r", "a", "s",
     "r", "c", " ", "s", "e", "n", "s", "o", "r", "-", "i", "d", "=", "%",
     "d", " ", "!", " ">>

FMT_LINE_20 ==
    <<"v", "i", "d", "e", "o", "/", "x", "-", "r", "a", "w", "(", "m", "e",
     "m", "o", "r", "y", ":", "N", "V", "M", "M", ")", ",", " ", "w", "i",
     "d", "t", "h", "=", "(", "i", "n", "t", ")", "%", "d", ",", " ", "h",
     "e", "i", "g", "h", "t", "=", "(", "i", "n", "t", ")", "%", "d", ",",
     " ", "f", "r", "a", "m", "e", "r", "a", "t", "e", "=", "(", "f", "r",
     "a", "c", "t", "i", "o", "n", ")", "%", "d", "/", "1", " ", "!", " ">>

FMT_LINE_21 ==
    <<"n", "v", "v", "i", "d", "c", "o", "n", "v", " ", "f", "l", "i", "p",
     "-", "m", "e", "t", "h", "o", "d", "=", "%", "d", " ", "!", " ">>

FMT_LINE_22 ==
    <<"v", "i", "d", "e", "o", "/", "x", "-", "r", "a", "w", ",", " ", "w",
     "i", "d", "t", "h", "=", "(", "i", "n", "t", ")", "%", "d", ",", " ",
     "h", "e", "i", "g", "h", "t", "=", "(", "i", "n", "t", ")", "%", "d",
     ",", " ", "f", "o", "r", "m", "a", "t", "=", "(", "s", "t", "r", "i",
     "n", "g", ")", "B", "G", "R", "x", " ", "!", " ">>

FMT_LINE_23 ==
    <<"v", "i", "d", "e", "o", "c", "o", "n", "v", "e", "r", "t", " ", "!", " ">>

FMT_LINE_24 ==
    <<"v", "i", "d", "e", "o", "/", "x", "-", "r", "a", "w", ",", " ", "f",
     "o", "r", "m", "a", "t", "=", "(", "s", "t", "r", "i", "n", "g", ")",
     "B", "G", "R", " ", "!", " ", "a", "p", "p", "s", "i", "n", "k">>

PIPELINE_FORMAT ==
    FMT_LINE_19 \o FMT_LINE_20 \o FMT_LINE_21 \o FMT_LINE_22 \o FMT_LINE_23
        \o FMT_LINE_24

DigitChar(d) ==
    CASE d = 0 -> "0" [] d = 1 -> "1" [] d = 2 -> "2" [] d = 3 -> "3"
      [] d = 4 -> "4" [] d = 5 -> "5" [] d = 6 -> "6" [] d = 7 -> "7"
      [] d = 8 -> "8" [] d = 9 -> "9"

RECURSIVE FormatNat(_)
\* decimal digits of a non-negative integer, most significant first
FormatNat(n) ==
    IF n < 10 THEN <<DigitChar(n)>>
    ELSE Append(FormatNat(n \div 10), DigitChar(n % 10))

\* Python's "%d" conversion of an int
FormatD(n) ==
    IF n < 0 THEN <<"-">> \o FormatNat(0 - n) ELSE FormatNat(n)

\* positions of the "%d" conversions of a format string
Conversions(fmt) ==
    {i \in 1..(Len(fmt) - 1) : fmt[i] = "%" /\ fmt[i + 1] = "d"}

RECURSIVE PercentFormat(_, _)
\* Python's  fmt % args  for a format string whose only conversions are "%d":
\* the text up to the first conversion is copied, the conversion is replaced
\* by the next argument, and the rest is formatted with the remaining ones
PercentFormat(fmt, args) ==
    IF Conversions(fmt) = {} THEN fmt
    ELSE LET i == CHOOSE j \in Conversions(fmt) :
                      \A k \in Conversions(fmt) : j <= k
         IN  SubSeq(fmt, 1, i - 1) \o FormatD(Head(args))
                 \o PercentFormat(SubSeq(fmt, i + 2, Len(fmt)), Tail(args))

\* the arguments in the order of the function's signature instead
FormatArgs_SignatureOrder(c) ==
    <<c.sensor_id, c.capture_width, c.capture_height, c.display_width,
      c.display_height, c.framerate, c.flip_method>>

\* the argument tuple of the % operator, in the order the source lists it
FormatArgs(c) ==
    <<c.sensor_id, c.capture_width, c.capture_height, c.framerate,
      c.flip_method, c.display_width, c.display_height>>

gstreamer_pipeline(c) ==
    PercentFormat(PIPELINE_FORMAT, FormatArgs(c))

\* the defaults of gstreamer_pipeline's signature
DefaultConfig ==
    [sensor_id |-> 0, capture_width |-> 1920, capture_height |-> 1080,
     display_width |-> 1920, display_height |-> 1080, framerate |-> 60,
     flip_method |-> DEFAULT_FLIP_METHOD]

(* ---------------- reading a descriptor back ---------------- *)
TXT_SEP_STAGE ==
    <<" ", "!", " ">>

TXT_SEP_FIELD ==
    <<",", " ">>

TXT_SOURCE ==
    <<"n", "v", "a", "r", "g", "u", "s", "c", "a", "m", "e", "r", "a", "s",
     "r", "c", " ", "s", "e", "n", "s", "o", "r", "-", "i", "d", "=">>

TXT_CAPS_NVMM ==
    <<"v", "i", "d", "e", "o", "/", "x", "-", "r", "a", "w", "(", "m", "e",
     "m", "o", "r", "y", ":", "N", "V", "M", "M", ")">>

TXT_CAPS_RAW ==
    <<"v", "i", "d", "e", "o", "/", "x", "-", "r", "a", "w">>

TXT_WIDTH ==
    <<"w", "i", "d", "t", "h", "=", "(", "i", "n", "t", ")">>

TXT_HEIGHT ==
    <<"h", "e", "i", "g", "h", "t", "=", "(", "i", "n", "t", ")">>

TXT_FRAMERATE ==
    <<"f", "r", "a", "m", "e", "r", "a", "t", "e", "=", "(", "f", "r", "a",
     "c", "t", "i", "o", "n", ")">>

TXT_FLIP ==
    <<"n", "v", "v", "i", "d", "c", "o", "n", "v", " ", "f", "l", "i", "p",
     "-", "m", "e", "t", "h", "o", "d", "=">>

TXT_FORMAT_BGRX ==
    <<"f", "o", "r", "m", "a", "t", "=", "(", "s", "t", "r", "i", "n", "g",
     ")", "B", "G", "R", "x">>

TXT_VIDEOCONVERT ==
    <<"v", "i", "d", "e", "o", "c", "o", "n", "v", "e", "r", "t">>

TXT_FORMAT_BGR ==
    <<"f", "o", "r", "m", "a", "t", "=", "(", "s", "t", "r", "i", "n", "g",
     ")", "B", "G", "R">>

TXT_APPSINK ==
    <<"a", "p", "p", "s", "i", "n", "k">>

Occurrences(sub, s) ==
    {i \in 1..(Len(s) - Len(sub) + 1) : SubSeq(s, i, i + Len(sub) - 1) = sub}

RECURSIVE Split(_, _)
\* the pieces of s between the occurrences of sep, left to right
Split(s, sep) ==
    IF Occurrences(sep, s) = {} THEN <<s>>
    ELSE LET i == CHOOSE j \in Occurrences(sep, s) :
                      \A k \in Occurrences(sep, s) : j <= k
         IN  <<SubSeq(s, 1, i - 1)>>
                 \o Split(SubSeq(s, i + Len(sep), Len(s)), sep)

StartsWith(s, p) ==
    Len(s) >= Len(p) /\ SubSeq(s, 1, Len(p)) = p

After(s, p) == SubSeq(s, Len(p) + 1, Len(s))

DigitChars == {"0", "1", "2", "3", "4", "5", "6", "7", "8", "9"}

DigitValue(ch) ==
    CASE ch = "0" -> 0 [] ch = "1" -> 1 [] ch = "2" -> 2 [] ch = "3" -> 3
      [] ch = "4" -> 4 [] ch = "5" -> 5 [] ch = "6" -> 6 [] ch = "7" -> 7
      [] ch = "8" -> 8 [] ch = "9" -> 9

\* t is an optional minus sign followed by at least one decimal digit
IsDecimal(t) ==
    LET body == IF t # <<>> /\ t[1] = "-" THEN Tail(t) ELSE t
    IN  body # <<>> /\ \A i \in 1..Len(body) : body[i] \in DigitChars

RECURSIVE ParseNat(_)
ParseNat(t) ==
    IF t = <<>> THEN 0
    ELSE 10 * ParseNat(SubSeq(t, 1, Len(t) - 1)) + DigitValue(t[Len(t)])

ParseInt(t) ==
    IF t[1] = "-" THEN 0 - ParseNat(Tail(t)) ELSE ParseNat(t)

\* the text s is the keyword p followed by the decimal form of n
IsKeyValue(s, p, n) ==
    StartsWith(s, p) /\ IsDecimal(After(s, p)) /\ ParseInt(After(s, p)) = n

\* the text s is "framerate=(fraction)" n "/1"
IsFramerate(s, n) ==
    /\ StartsWith(s, TXT_FRAMERATE)
    /\ LET frac == Split(After(s, TXT_FRAMERATE), <<"/">>)
       IN  /\ Len(frac) = 2
           /\ IsDecimal(frac[1]) /\ ParseInt(frac[1]) = n
           /\ frac[2] = <<"1">>

\* d reads as the five stages  source -> conversion/flip ->
\* format/resolution -> software conversion -> sink  carrying c's seven values
DescribesConfig(d, c) ==
    LET stages == Split(d, TXT_SEP_STAGE)
    IN  /\ Len(stages) = 7
        /\ IsKeyValue(stages[1], TXT_SOURCE, c.sensor_id)
        /\ LET caps == Split(stages[2], TXT_SEP_FIELD)
           IN  /\ Len(caps) = 4
               /\ caps[1] = TXT_CAPS_NVMM
               /\ IsKeyValue(caps[2], TXT_WIDTH, c.capture_width)
               /\ IsKeyValue(caps[3], TXT_HEIGHT, c.capture_height)
               /\ IsFramerate(caps[4], c.framerate)
        /\ IsKeyValue(stages[3], TXT_FLIP, c.flip_method)
        /\ LET caps == Split(stages[4], TXT_SEP_FIELD)
           IN  /\ Len(caps) = 4
               /\ caps[1] = TXT_CAPS_RAW
               /\ IsKeyValue(caps[2], TXT_WIDTH, c.display_width)
               /\ IsKeyValue(caps[3], TXT_HEIGHT, c.display_height)
               /\ caps[4] = TXT_FORMAT_BGRX
        /\ stages[5] = TXT_VIDEOCONVERT
        /\ Split(stages[6], TXT_SEP_FIELD) = <<TXT_CAPS_RAW, TXT_FORMAT_BGR>>
        /\ stages[7] = TXT_APPSINK

\* every decimal field of d: the maximal runs of digits with their sign
NumberStarts(d) ==
    {i \in 1..Len(d) :
        /\ d[i] \in DigitChars
        /\ (i = 1 \/ d[i - 1] \notin DigitChars)}

(* ---------------- input domains ---------------- *)
SensorIds == 0..MaxSensorId

FlipMethods == (0 - 1)..MaxFlipMethod

Widths == {640, 1920}

Heights == {9, 1080}

Framerates == {30, 60}

CaptureConfigs ==
    [sensor_id : SensorIds, capture_width : Widths, capture_height : Heights,
     display_width : Widths, display_height : Heights,
     framerate : Framerates, flip_method : FlipMethods]

(* ---------------- state ---------------- *)
VARIABLES
    pc,               \* position in show_camera / gstreamer_pipeline
    flip_method,      \* argument of show_camera
    config,           \* arguments of the gstreamer_pipeline call
    pipeline,         \* the built descriptor
    stdout,           \* lines printed so far
    video_capture,    \* "none", "open", "closed" (failed to open), "released"
    ret_val,          \* success flag of the last read
    frame,            \* number of the last frame read, 0 if none
    window_prop,      \* result of the last getWindowProperty
    wait_result,      \* result of the last waitKey, before masking
    key_code,         \* wait_result & 0xFF
    shown,            \* the frames rendered by imshow, in order
    calls,            \* how often each library call was made
    exception,        \* the call whose error is propagating, or "none"
    exit_path         \* how the function left its normal flow, or "none"

vars ==
    <<pc, flip_method, config, pipeline, stdout, video_capture, ret_val,
      frame, window_prop, wait_result, key_code, shown, calls, exception,
      exit_path>>

loop_vars ==
    <<video_capture, ret_val, frame, window_prop, wait_result, key_code,
      shown, calls, exception, exit_path>>

Calls ==
    {"VideoCapture", "namedWindow", "read", "getWindowProperty", "imshow",
     "waitKey", "release", "destroyAllWindows"}

NoCalls == [c \in Calls |-> 0]

Called(c) == calls' = [calls EXCEPT ![c] = @ + 1]

(* ---------------- the builder on its own ---------------- *)
InitPipeline ==
    /\ pc = "gstreamer_pipeline"
    /\ flip_method = DEFAULT_FLIP_METHOD
    /\ config \in CaptureConfigs
    /\ pipeline = <<>>
    /\ stdout = <<>>
    /\ video_capture = "none"
    /\ ret_val = FALSE
    /\ frame = 0
    /\ window_prop = 0
    /\ wait_result = 0
    /\ key_code = 0
    /\ shown = <<>>
    /\ calls = NoCalls
    /\ exception = "none"
    /\ exit_path = "none"

CallPipeline ==
    /\ pc = "gstreamer_pipeline"
    /\ pipeline' = gstreamer_pipeline(config)
    /\ pc' = "built"
    /\ UNCHANGED <<flip_method, config, stdout>>
    /\ UNCHANGED loop_vars

NextPipeline == CallPipeline

SpecPipeline == InitPipeline /\ [][NextPipeline]_vars

(* ---------------- values the library can return ---------------- *)
\* waitKey: -1 on timeout, plain key codes, and codes with bits above the
\* low eight set
WaitKeyResults == {0 - 1, 27, 81, 113, 283, 65649}

\* getWindowProperty: the flag's value, or a negative sentinel when the
\* window does not exist
WindowProperties == {0 - 1, 0, 1}

(* ---------------- show_camera ---------------- *)
Init ==
    /\ pc = "show_camera"
    /\ flip_method \in FlipMethods
    /\ config = DefaultConfig
    /\ pipeline = <<>>
    /\ stdout = <<>>
    /\ video_capture = "none"
    /\ ret_val = FALSE
    /\ frame = 0
    /\ window_prop = 0
    /\ wait_result = 0
    /\ key_code = 0
    /\ shown = <<>>
    /\ calls = NoCalls
    /\ exception = "none"
    /\ exit_path = "none"

\* pipeline = gstreamer_pipeline(flip_method=flip_method)
BuildPipeline ==
    /\ pc = "show_camera"
    /\ config' = [DefaultConfig EXCEPT !.flip_method = flip_method]
    /\ pipeline' = gstreamer_pipeline(config')
    /\ pc' = "print"
    /\ UNCHANGED <<flip_method, stdout>>
    /\ UNCHANGED loop_vars

\* the descriptor is not printed before the source is opened
PrintPipeline_Skipped ==
    /\ pc = "print"
    /\ pc' = "VideoCapture"
    /\ UNCHANGED <<flip_method, config, pipeline, stdout>>
    /\ UNCHANGED loop_vars

\* print(pipeline)
PrintPipeline ==
    /\ pc = "print"
    /\ stdout' = Append(stdout, pipeline)
    /\ pc' = "VideoCapture"
    /\ UNCHANGED <<flip_method, config, pipeline>>
    /\ UNCHANGED loop_vars

\* video_capture = cv2.VideoCapture(pipeline, cv2.CAP_GSTREAMER): the
\* handle is constructed whether or not the source opens
OpenCapture ==
    /\ pc = "VideoCapture"
    /\ \E opened \in BOOLEAN :
           video_capture' = IF opened THEN "open" ELSE "closed"
    /\ Called("VideoCapture")
    /\ pc' = "isOpened"
    /\ UNCHANGED <<flip_method, config, pipeline, stdout, ret_val, frame,
                   window_prop, wait_result, key_code, shown, exception,
                   exit_path>>

\* the failure message is printed but the function goes on into the try block
IsOpenedFalse_NoReturn ==
    /\ pc = "isOpened"
    /\ video_capture = "closed"
    /\ stdout' = Append(stdout, MSG_OPEN_ERROR)
    /\ exit_path' = "open_failed"
    /\ pc' = "namedWindow"
    /\ UNCHANGED <<flip_method, config, pipeline, video_capture, ret_val,
                   frame, window_prop, wait_result, key_code, shown, calls,
                   exception>>

\* if not video_capture.isOpened(): print(...); return
IsOpenedFalse ==
    /\ pc = "isOpened"
    /\ video_capture = "closed"
    /\ stdout' = Append(stdout, MSG_OPEN_ERROR)
    /\ exit_path' = "open_failed"
    /\ pc' = "returned"
    /\ UNCHANGED <<flip_method, config, pipeline, video_capture, ret_val,
                   frame, window_prop, wait_result, key_code, shown, calls,
                   exception>>

\* isOpened() is true: the try block is entered
IsOpenedTrue ==
    /\ pc = "isOpened"
    /\ video_capture = "open"
    /\ pc' = "namedWindow"
    /\ UNCHANGED <<flip_method, config, pipeline, stdout>>
    /\ UNCHANGED loop_vars

\* the error leaves the function without running the finally block
Raise_NoFinally(call) ==
    /\ exception' = call
    /\ exit_path' = "error"
    /\ pc' = "raised"

\* an error raised by a call inside the try block: control goes to the
\* finally block and the error propagates after it
Raise(call) ==
    /\ exception' = call
    /\ exit_path' = "error"
    /\ pc' = "release"

\* break: control goes to the finally block
Break(path) ==
    /\ exit_path' = path
    /\ pc' = "release"

\* cv2.namedWindow(WINDOW_TITLE, cv2.WINDOW_AUTOSIZE)
NamedWindow ==
    /\ pc = "namedWindow"
    /\ Called("namedWindow")
    /\ \/ pc' = "read" /\ UNCHANGED <<exception, exit_path>>
       \/ Raise("namedWindow")
    /\ UNCHANGED <<flip_method, config, pipeline, stdout, video_capture,
                   ret_val, frame, window_prop, wait_result, key_code,
                   shown>>

\* ret_val, frame = video_capture.read() with ret_val true, or an error
ReadFrame ==
    /\ pc = "read"
    /\ Called("read")
    /\ \/ /\ calls["read"] < MaxFrames
          /\ ret_val' = TRUE
          /\ frame' = frame + 1
          /\ pc' = "getWindowProperty"
          /\ UNCHANGED <<exception, exit_path>>
       \/ /\ Raise("read")
          /\ UNCHANGED <<ret_val, frame>>
    /\ UNCHANGED <<flip_method, config, pipeline, stdout, video_capture,
                   window_prop, wait_result, key_code, shown>>

\* the warning is printed and the loop goes on with the window check
ReadFails_NoBreak ==
    /\ pc = "read"
    /\ Called("read")
    /\ ret_val' = FALSE
    /\ stdout' = Append(stdout, MSG_READ_WARNING)
    /\ exit_path' = "read_failed"
    /\ pc' = "getWindowProperty"
    /\ UNCHANGED <<flip_method, config, pipeline, video_capture, frame,
                   window_prop, wait_result, key_code, shown, exception>>

\* the warning is printed and the read is tried again
ReadFails_Retry ==
    /\ pc = "read"
    /\ calls["read"] < MaxFrames
    /\ Called("read")
    /\ ret_val' = FALSE
    /\ stdout' = Append(stdout, MSG_READ_WARNING)
    /\ pc' = "read"
    /\ UNCHANGED <<flip_method, config, pipeline, video_capture, frame,
                   window_prop, wait_result, key_code, shown, exception,
                   exit_path>>

\* read() with ret_val false: print the warning; break
ReadFails ==
    /\ pc = "read"
    /\ Called("read")
    /\ ret_val' = FALSE
    /\ stdout' = Append(stdout, MSG_READ_WARNING)
    /\ Break("read_failed")
    /\ UNCHANGED <<flip_method, config, pipeline, video_capture, frame,
                   window_prop, wait_result, key_code, shown, exception>>

\* the window is never taken to be gone
WindowGone_Never(v) == FALSE

\* cv2.getWindowProperty(...) < 0
WindowGone(v) == v < 0

\* the window check of one iteration
GetWindowProperty ==
    /\ pc = "getWindowProperty"
    /\ Called("getWindowProperty")
    /\ \/ \E v \in WindowProperties :
              /\ window_prop' = v
              /\ IF WindowGone(v)
                 THEN Break("window_gone")
                 ELSE pc' = "imshow" /\ UNCHANGED exit_path
              /\ UNCHANGED exception
       \/ /\ Raise("getWindowProperty")
          /\ UNCHANGED window_prop
    /\ UNCHANGED <<flip_method, config, pipeline, stdout, video_capture,
                   ret_val, frame, wait_result, key_code, shown>>

\* cv2.imshow(WINDOW_TITLE, frame)
Imshow ==
    /\ pc = "imshow"
    /\ Called("imshow")
    /\ \/ /\ shown' = Append(shown, frame)
          /\ pc' = "waitKey"
          /\ UNCHANGED <<exception, exit_path>>
       \/ /\ Raise("imshow")
          /\ UNCHANGED shown
    /\ UNCHANGED <<flip_method, config, pipeline, stdout, video_capture,
                   ret_val, frame, window_prop, wait_result, key_code>>

RECURSIVE BitAndNat(_, _)
\* bitwise AND of two non-negative integers
BitAndNat(a, b) ==
    IF a = 0 \/ b = 0 THEN 0
    ELSE (a % 2) * (b % 2) + 2 * BitAndNat(a \div 2, b \div 2)

\* Python's a & b for b >= 0; a negative a stands for the two's complement
\* bit pattern ~(-a - 1) of unbounded width
BitAnd(a, b) ==
    IF a >= 0 THEN BitAndNat(a, b) ELSE b - BitAndNat((0 - a) - 1, b)

\* the result of waitKey is compared unmasked
MaskKey_Unmasked(r) == r

\* cv2.waitKey(10) & 0xFF
MaskKey(r) == BitAnd(r, 255)

\* only the escape key ends the loop
IsExitKey_OnlyEsc(k) == k = KEY_ESC

\* key_code in EXIT_KEYS
IsExitKey(k) == k \in EXIT_KEYS

\* the key poll of one iteration
WaitKey ==
    /\ pc = "waitKey"
    /\ Called("waitKey")
    /\ \/ \E r \in WaitKeyResults :
              /\ wait_result' = r
              /\ key_code' = MaskKey(r)
              /\ IF IsExitKey(key_code')
                 THEN Break("exit_key")
                 ELSE pc' = "read" /\ UNCHANGED exit_path
              /\ UNCHANGED exception
       \/ /\ Raise("waitKey")
          /\ UNCHANGED <<wait_result, key_code>>
    /\ UNCHANGED <<flip_method, config, pipeline, stdout, video_capture,
                   ret_val, frame, window_prop, shown>>

\* finally: video_capture.release()
Release ==
    /\ pc = "release"
    /\ Called("release")
    /\ video_capture' = "released"
    /\ pc' = "destroyAllWindows"
    /\ UNCHANGED <<flip_method, config, pipeline, stdout, ret_val, frame,
                   window_prop, wait_result, key_code, shown, exception,
                   exit_path>>

\* finally: cv2.destroyAllWindows(); then the function returns, or the
\* pending error propagates to the caller
DestroyAllWindows ==
    /\ pc = "destroyAllWindows"
    /\ Called("destroyAllWindows")
    /\ pc' = IF exception = "none" THEN "returned" ELSE "raised"
    /\ UNCHANGED <<flip_method, config, pipeline, stdout, video_capture,
                   ret_val, frame, window_prop, wait_result, key_code,
                   shown, exception, exit_path>>

Next ==
    \/ BuildPipeline
    \/ PrintPipeline
    \/ OpenCapture
    \/ IsOpenedFalse
    \/ IsOpenedTrue
    \/ NamedWindow
    \/ ReadFrame
    \/ ReadFails
    \/ GetWindowProperty
    \/ Imshow
    \/ WaitKey
    \/ Release
    \/ DestroyAllWindows

Spec == Init /\ [][Next]_vars

(* ---------------- properties of the builder ---------------- *)
\* C8: for every CaptureConfig of the bounded domain, the descriptor built by
\* gstreamer_pipeline reads back as the stage chain source -> conversion/flip
\* -> format/resolution -> software conversion -> sink with the literal stage
\* keywords, and carries the sensor index, capture width, capture height,
\* frame rate, flip code, display width and display height once each in
\* their own slots (seven value fields plus the constant "/1" of the
\* frame-rate fraction, eight decimal fields in all).
C8_DescriptorCarriesConfig ==
    pc = "built" =>
        /\ DescribesConfig(pipeline, config)
        /\ Cardinality(NumberStarts(pipeline)) = 8

\* a descriptor was built for a configuration whose capture and display
\* sizes differ and whose flip code is negative
C8_Witness ==
    /\ pc = "built"
    /\ config.capture_width # config.display_width
    /\ config.capture_height # config.display_height
    /\ config.flip_method < 0
    /\ config.sensor_id # config.framerate
    /\ DescribesConfig(pipeline, config)

(* ---------------- properties of show_camera ---------------- *)
Terminated == pc \in {"returned", "raised"}

AfterLoop == pc \in {"release", "destroyAllWindows", "returned", "raised"}

\* the printed lines that are an error or a warning message
ErrorLines ==
    {i \in 1..Len(stdout) : stdout[i] \in {MSG_OPEN_ERROR, MSG_READ_WARNING}}

\* the state of the spec's state machine that a position belongs to
ControlState(p) ==
    CASE p \in {"show_camera", "print", "VideoCapture", "isOpened"}
             -> "Unopened"
      [] p = "namedWindow" -> "Opened"
      [] p \in {"read", "getWindowProperty", "imshow", "waitKey"}
             -> "Streaming"
      [] p \in {"release", "destroyAllWindows", "returned", "raised"}
             -> "Closed"

\* C1: once the source has opened, every way out of show_camera (read
\* failure, window gone, exit key, or an error raised by namedWindow or by a
\* call of the loop body) has released the source and destroyed the windows,
\* each exactly once, and no read, render or key poll follows the release.
C1_ReleasedOnceOnEveryExit ==
    /\ [](calls["release"] <= 1 /\ calls["destroyAllWindows"] <= 1)
    /\ [](Terminated /\ video_capture \in {"open", "released"} =>
              /\ video_capture = "released"
              /\ calls["release"] = 1
              /\ calls["destroyAllWindows"] = 1)
    /\ [][calls["release"] >= 1 =>
              /\ calls'["read"] = calls["read"]
              /\ calls'["imshow"] = calls["imshow"]
              /\ calls'["waitKey"] = calls["waitKey"]
              /\ shown' = shown]_vars

\* an error raised by imshow after a frame had been rendered has propagated,
\* with the source released and the windows destroyed once
C1_Witness ==
    /\ pc = "raised"
    /\ exception = "imshow"
    /\ Len(shown) >= 1
    /\ calls["release"] = 1
    /\ calls["destroyAllWindows"] = 1

\* C2: a run that constructed a capture handle has released it by the time
\* show_camera is left, also when the source failed to open.
C2_HandleReleasedOnEveryExit ==
    Terminated /\ calls["VideoCapture"] >= 1 => calls["release"] >= 1

\* C3: when the source fails to open, show_camera returns normally with no
\* window created, no frame read, nothing rendered, no key polled and no
\* error propagated, having printed exactly one message after the descriptor.
C3_OpenFailureReturnsQuietly ==
    video_capture = "closed" =>
        /\ pc \in {"isOpened", "returned"}
        /\ exception = "none"
        /\ calls["namedWindow"] = 0
        /\ calls["read"] = 0
        /\ calls["getWindowProperty"] = 0
        /\ calls["imshow"] = 0
        /\ calls["waitKey"] = 0
        /\ shown = <<>>
        /\ pc = "returned" =>
               /\ stdout = <<pipeline, MSG_OPEN_ERROR>>
               /\ Cardinality(ErrorLines) = 1

C3_Witness ==
    /\ video_capture = "closed"
    /\ pc = "returned"
    /\ exit_path = "open_failed"
    /\ Len(stdout) = 2

\* C4: when the first failed read is the k-th read, exactly the k-1 frames
\* read before it have been rendered, one warning has been printed, and the
\* source and the windows are released exactly once afterwards.
C4_ReadFailureAfterKMinusOneFrames ==
    exit_path = "read_failed" =>
        /\ ~ret_val
        /\ Len(shown) = calls["read"] - 1
        /\ \A i \in 1..Len(shown) : shown[i] = i
        /\ stdout = <<pipeline, MSG_READ_WARNING>>
        /\ Cardinality(ErrorLines) = 1
        /\ AfterLoop
        /\ calls["release"] <= 1
        /\ calls["destroyAllWindows"] <= 1
        /\ Terminated =>
               /\ pc = "returned"
               /\ calls["release"] = 1
               /\ calls["destroyAllWindows"] = 1

\* the second read failed after one frame had been rendered
C4_Witness ==
    /\ exit_path = "read_failed"
    /\ calls["read"] = 2
    /\ shown = <<1>>
    /\ pc = "returned"

\* C5: a key poll that returns the escape key (27) or "q" (113) ends the
\* loop in that iteration: the frame read in the iteration has been
\* rendered, and nothing more is read or rendered before the release.
C5_ExitKeyEndsLoop ==
    /\ [][/\ pc = "waitKey"
          /\ calls'["waitKey"] = calls["waitKey"] + 1
          /\ exception' = "none"
          /\ wait_result' \in {27, 113}
          => /\ pc' = "release"
             /\ exit_path' = "exit_key"]_vars
    /\ [](exit_path = "exit_key" =>
              /\ pc \in {"release", "destroyAllWindows", "returned"}
              /\ Len(shown) = calls["read"]
              /\ shown[Len(shown)] = frame
              /\ calls["waitKey"] = calls["read"])

\* "q" was pressed in the second iteration
C5_Witness ==
    /\ exit_path = "exit_key"
    /\ wait_result = 113
    /\ shown = <<1, 2>>
    /\ pc = "returned"

\* C6: a negative result of the window check ends the loop in that
\* iteration silently: the frame just read is not rendered, no key is
\* polled, no message is printed and show_camera returns normally after the
\* release; a frame is rendered only in an iteration whose read succeeded
\* and whose window check passed.
C6_WindowGoneEndsLoopSilently ==
    /\ [][/\ pc = "getWindowProperty"
          /\ calls'["getWindowProperty"] = calls["getWindowProperty"] + 1
          /\ exception' = "none"
          /\ window_prop' < 0
          => /\ pc' = "release"
             /\ exit_path' = "window_gone"]_vars
    /\ [](exit_path = "window_gone" =>
              /\ window_prop < 0
              /\ Len(shown) = calls["read"] - 1
              /\ calls["imshow"] = calls["read"] - 1
              /\ calls["waitKey"] = calls["read"] - 1
              /\ stdout = <<pipeline>>
              /\ exception = "none"
              /\ pc \in {"release", "destroyAllWindows", "returned"})
    /\ [][shown' # shown =>
              /\ shown' = Append(shown, frame)
              /\ ret_val
              /\ window_prop >= 0
              /\ calls["getWindowProperty"] = calls["read"]
              /\ frame = calls["read"]]_vars

\* the window was gone in the second iteration
C6_Witness ==
    /\ exit_path = "window_gone"
    /\ pc = "returned"
    /\ calls["read"] = 2
    /\ shown = <<1>>

\* C7: the descriptor built for the given flip code is the first line
\* printed, and it is printed before the source is opened; an open failure
\* and a read failure print one message each, the window-gone and exit-key
\* paths print none, so at most one error or warning line is printed.
C7_DescriptorFirstThenAtMostOneMessage ==
    /\ (calls["VideoCapture"] >= 1 \/ stdout # <<>>) =>
           /\ Len(stdout) >= 1
           /\ stdout[1] = pipeline
           /\ DescribesConfig(stdout[1],
                  [DefaultConfig EXCEPT !.flip_method = flip_method])
    /\ Cardinality(ErrorLines) <= 1
    /\ Len(stdout) <= 2
    /\ exit_path = "open_failed" => stdout = <<pipeline, MSG_OPEN_ERROR>>
    /\ exit_path = "read_failed" => stdout = <<pipeline, MSG_READ_WARNING>>
    /\ exit_path \in {"window_gone", "exit_key"} => stdout = <<pipeline>>

\* a run with a non-default flip code ended on a failed first read
C7_Witness ==
    /\ flip_method # DEFAULT_FLIP_METHOD
    /\ exit_path = "read_failed"
    /\ calls["read"] = 1
    /\ Terminated
    /\ Len(stdout) = 2

\* one step of the loop that stays in Streaming: the read succeeded, the
\* window was valid, the frame was rendered, the key was not an exit key
StaysStreaming ==
    /\ exit_path' = "none"
    /\ exception' = "none"
    /\ pc = "read" => ret_val' /\ pc' = "getWindowProperty"
    /\ pc = "getWindowProperty" => window_prop' >= 0 /\ pc' = "imshow"
    /\ pc = "imshow" => shown' = Append(shown, frame) /\ pc' = "waitKey"
    /\ pc = "waitKey" => ~IsExitKey(key_code') /\ pc' = "read"

\* Closed is terminal: no open, read, render or key poll is made any more
StaysClosed ==
    /\ calls'["VideoCapture"] = calls["VideoCapture"]
    /\ calls'["read"] = calls["read"]
    /\ calls'["imshow"] = calls["imshow"]
    /\ calls'["waitKey"] = calls["waitKey"]
    /\ shown' = shown

\* the transitions the state machine lists
ListedTransition(s, t) ==
    \/ s = "Unopened" /\ t = "Unopened"
    \/ s = "Unopened" /\ t = "Opened" /\ video_capture' = "open"
    \/ s = "Unopened" /\ t = "Closed" /\ exit_path' = "open_failed"
    \/ s = "Opened" /\ t = "Streaming" /\ calls'["namedWindow"] = 1
    \/ s = "Streaming" /\ t = "Streaming" /\ StaysStreaming
    \/ /\ s = "Streaming" /\ t = "Closed"
       /\ exit_path' \in {"read_failed", "window_gone", "exit_key"}
    \/ s = "Closed" /\ t = "Closed" /\ StaysClosed

\* the transitions taken when a library call raises an error
ErrorTransition(s, t) ==
    /\ s \in {"Opened", "Streaming"}
    /\ t = "Closed"
    /\ exit_path' = "error"
    /\ exception' # "none"

\* C9 as stated: a run moves only along Unopened -> Opened, Unopened ->
\* Closed, Opened -> Streaming, Streaming -> Streaming and Streaming ->
\* Closed (read failure, window gone or exit key), and Closed is terminal.
C9_OnlyListedTransitions ==
    [][ListedTransition(ControlState(pc), ControlState(pc'))]_vars

\* C9 amended: a run moves only along the listed transitions or, when
\* namedWindow or a call of the loop body raises an error, along Opened ->
\* Closed or Streaming -> Closed; Closed is terminal.
C9_ListedOrErrorTransitions ==
    [][\/ ListedTransition(ControlState(pc), ControlState(pc'))
       \/ ErrorTransition(ControlState(pc), ControlState(pc'))]_vars

\* window creation raised an error: Opened -> Closed, and the run ended
C9_Witness ==
    /\ pc = "raised"
    /\ exception = "namedWindow"
    /\ calls["read"] = 0
    /\ calls["release"] = 1

\* C10: for every result r of the key poll the loop ends in that iteration
\* exactly when r mod 256 is 27 or 113; the timeout result -1 is compared as
\* 255 and lets the loop go on.
C10_ExitIffLowByteIsExitKey ==
    [][/\ pc = "waitKey"
       /\ calls'["waitKey"] = calls["waitKey"] + 1
       /\ exception' = "none"
       => /\ key_code' = wait_result' % 256
          /\ wait_result' = 0 - 1 => key_code' = 255 /\ pc' = "read"
          /\ IF wait_result' % 256 \in {27, 113}
             THEN pc' = "release" /\ exit_path' = "exit_key"
             ELSE pc' = "read" /\ exit_path' = "none"]_vars

\* a key code above 255 whose low byte is that of "q" ended the loop
C10_Witness ==
    /\ exit_path = "exit_key"
    /\ wait_result = 65649
    /\ key_code = 113
    /\ Terminated

====
